---- MODULE Spec2Model ----
(***************************************************************************)
(* Model of decode() of src/actions/decode.rs: validation of the input    *)
(* and output paths, dispatch on the input's extension, extraction of a   *)
(* ZIP/CBZ archive (stage to temporary files, sort, rename) and of a PDF  *)
(* (collect the images page by page, write them).                         *)
(*                                                                         *)
(* A string is a sequence of one-character strings; a path inside a       *)
(* container is a sequence of such segments.  The output directory is a   *)
(* function from file name to content; a content is the identity of the   *)
(* bytes (src) and whether they were written completely.                  *)
(***************************************************************************)
EXTENDS Integers, Sequences, FiniteSets, TLC

\* ------------------------------------------------------------- bounds
MaxEntries == 3
MaxNumbered == 11
MaxPdfPages == 3

\* ------------------------------------------------------------ strings
Letters == <<"a","b","c","d","e","f","g","h","i","j","k","l","m",
             "n","o","p","q","r","s","t","u","v","w","x","y","z">>
Capitals == <<"A","B","C","D","E","F","G","H","I","J","K","L","M",
              "N","O","P","Q","R","S","T","U","V","W","X","Y","Z">>
Digits == <<"0","1","2","3","4","5","6","7","8","9">>

\* A byte that is not valid UTF-8 (an OsStr may hold one, a str may not).
BadByte == "\\xff"

IndexIn(c, s) == CHOOSE k \in 1..Len(s) : s[k] = c
IsIn(c, s) == \E k \in 1..Len(s) : s[k] = c
IsDigit(c) == IsIn(c, Digits)
DigitVal(c) == IndexIn(c, Digits) - 1

\* The code point of a character (ASCII), as the byte-wise comparison of
\* OsStr sees it.
Code(c) ==
    IF IsIn(c, Letters) THEN 96 + IndexIn(c, Letters)
    ELSE IF IsIn(c, Capitals) THEN 64 + IndexIn(c, Capitals)
    ELSE IF IsDigit(c) THEN 48 + DigitVal(c)
    ELSE IF c = "." THEN 46
    ELSE IF c = "_" THEN 95
    ELSE IF c = "-" THEN 45
    ELSE 255

\* str::to_lowercase, character by character.
LowerChar(c) == IF IsIn(c, Capitals) THEN Letters[IndexIn(c, Capitals)] ELSE c
to_lowercase(s) == [k \in 1..Len(s) |-> LowerChar(s[k])]

\* OsStr::to_str succeeds iff every byte is valid UTF-8.
IsUtf8(s) == \A k \in 1..Len(s) : s[k] # BadByte

\* usize::to_string: the decimal digits of n.
RECURSIVE to_string(_)
to_string(n) ==
    IF n < 10 THEN <<Digits[n + 1]>>
    ELSE to_string(n \div 10) \o <<Digits[(n % 10) + 1]>>

\* The value of a run of decimal digits.
RECURSIVE NumVal(_)
NumVal(s) ==
    IF s = <<>> THEN 0
    ELSE 10 * NumVal(SubSeq(s, 1, Len(s) - 1)) + DigitVal(s[Len(s)])

\* format!("{:0w$}", n): the digits of n, left-padded with zeros to width w;
\* a number wider than w is not truncated.
FormatPadded(n, w) ==
    LET s == to_string(n)
    IN  IF Len(s) >= w THEN s ELSE [k \in 1..(w - Len(s)) |-> "0"] \o s

\* An Option<String>.
None == [some |-> FALSE, v |-> <<>>]
Some(s) == [some |-> TRUE, v |-> s]

\* The parent directory, which is no file name.
DotDot == <<".", ".">>

\* Path::extension of a file name: the part after the last dot; none when
\* the name has no dot or its only dot is the first character, and for "..",
\* which has no file name.
LastDot(name) ==
    IF \E k \in 1..Len(name) : name[k] = "."
    THEN CHOOSE k \in 1..Len(name) :
            name[k] = "." /\ \A m \in (k + 1)..Len(name) : name[m] # "."
    ELSE 0
Extension(name) ==
    IF LastDot(name) <= 1 \/ name = DotDot THEN None
    ELSE Some(SubSeq(name, LastDot(name) + 1, Len(name)))

\* Path::with_extension(""): the name is copied up to its extension, the
\* dot included, and set_extension("") then cuts the copy down to its file
\* stem; a copy that is ".." has no file name and stays as it is.
WithoutExtension(name) ==
    IF ~Extension(name).some THEN name
    ELSE LET kept == SubSeq(name, 1, LastDot(name))
         IN  IF kept = DotDot THEN kept ELSE SubSeq(kept, 1, Len(kept) - 1)

\* A path of segments as the string PathBuf holds: the segments joined by
\* the separator.
RECURSIVE PathString(_)
PathString(path) ==
    IF path = <<>> THEN <<>>
    ELSE IF Len(path) = 1 THEN path[1]
    ELSE path[1] \o <<"/">> \o PathString(Tail(path))

\* Path::extension of a path of segments: that of its last segment.
PathExtension(path) == IF path = <<>> THEN None ELSE Extension(path[Len(path)])

\* ------------------------------------------------------- comparators
\* Orderings are -1 (less), 0 (equal), 1 (greater).
IntCmp(a, b) == IF a < b THEN -1 ELSE IF a > b THEN 1 ELSE 0

\* Byte-wise lexicographic comparison of two strings (Ord for OsStr).
RECURSIVE StrCmp(_, _)
StrCmp(a, b) ==
    IF a = <<>> /\ b = <<>> THEN 0
    ELSE IF a = <<>> THEN -1
    ELSE IF b = <<>> THEN 1
    ELSE IF Code(Head(a)) # Code(Head(b)) THEN IntCmp(Code(Head(a)), Code(Head(b)))
    ELSE StrCmp(Tail(a), Tail(b))

\* Ord for Path: component by component, a proper prefix first.
RECURSIVE PathCmp(_, _)
PathCmp(p, q) ==
    IF p = <<>> /\ q = <<>> THEN 0
    ELSE IF p = <<>> THEN -1
    ELSE IF q = <<>> THEN 1
    ELSE IF StrCmp(Head(p), Head(q)) # 0 THEN StrCmp(Head(p), Head(q))
    ELSE PathCmp(Tail(p), Tail(q))

\* The length of the maximal run of digits a string starts with.
RECURSIVE DigitRun(_)
DigitRun(s) ==
    IF s = <<>> \/ ~IsDigit(Head(s)) THEN 0 ELSE 1 + DigitRun(Tail(s))

\* Natural comparison of two segments: where both have a run of digits the
\* runs compare by value (leading zeros ignored), other characters by code
\* point; a proper prefix sorts first.
RECURSIVE NaturalStrCmp(_, _)
NaturalStrCmp(a, b) ==
    IF a = <<>> /\ b = <<>> THEN 0
    ELSE IF a = <<>> THEN -1
    ELSE IF b = <<>> THEN 1
    ELSE IF IsDigit(Head(a)) /\ IsDigit(Head(b)) THEN
        LET ra == DigitRun(a)
            rb == DigitRun(b)
            va == NumVal(SubSeq(a, 1, ra))
            vb == NumVal(SubSeq(b, 1, rb))
        IN  IF va # vb THEN IntCmp(va, vb)
            ELSE NaturalStrCmp(SubSeq(a, ra + 1, Len(a)), SubSeq(b, rb + 1, Len(b)))
    ELSE IF Code(Head(a)) # Code(Head(b)) THEN IntCmp(Code(Head(a)), Code(Head(b)))
    ELSE NaturalStrCmp(Tail(a), Tail(b))

\* deter::natural_paths_cmp: segment by segment in natural order.
RECURSIVE natural_paths_cmp(_, _)
natural_paths_cmp(p, q) ==
    IF p = <<>> /\ q = <<>> THEN 0
    ELSE IF p = <<>> THEN -1
    ELSE IF q = <<>> THEN 1
    ELSE IF NaturalStrCmp(Head(p), Head(q)) # 0 THEN NaturalStrCmp(Head(p), Head(q))
    ELSE natural_paths_cmp(Tail(p), Tail(q))

\* deter::has_image_ext: whether the path's extension, compared without
\* case, names an image format; the extended formats count only on demand.
BasicImageExts == { <<"p","n","g">>, <<"j","p","g">> }
ExtendedImageExts == { <<"w","e","b","p">> }
has_image_ext(path, extended) ==
    LET e == PathExtension(path)
    IN  /\ e.some
        /\ IsUtf8(e.v)
        /\ \/ to_lowercase(e.v) \in BasicImageExts
           \/ extended /\ to_lowercase(e.v) \in ExtendedImageExts

\* The comparator of pages.sort_by: Path's own order with simple_sorting,
\* the natural order otherwise.
PageCmp(simple, a, b) ==
    IF simple THEN PathCmp(a.path_in_zip, b.path_in_zip)
    ELSE natural_paths_cmp(a.path_in_zip, b.path_in_zip)

\* slice::sort_by is a stable sort: insertion of each element after the
\* last element that is not greater.
RECURSIVE InsertSorted(_, _, _)
InsertSorted(simple, sorted, x) ==
    IF sorted = <<>> THEN <<x>>
    ELSE IF PageCmp(simple, sorted[Len(sorted)], x) <= 0 THEN Append(sorted, x)
    ELSE Append(InsertSorted(simple, SubSeq(sorted, 1, Len(sorted) - 1), x),
                sorted[Len(sorted)])

RECURSIVE SortFrom(_, _, _)
SortFrom(simple, sorted, rest) ==
    IF rest = <<>> THEN sorted
    ELSE SortFrom(simple, InsertSorted(simple, sorted, Head(rest)), Tail(rest))

UnsortedPages(simple, ps) == ps
SortPages(simple, ps) == SortFrom(simple, <<>>, ps)

\* ------------------------------------------------------- file names
Str_tmp_pic == <<"_","_","_","t","m","p","_","p","i","c","_">>

\* format!("___tmp_pic_{}", pages.len())
SameTmpName(k) == Str_tmp_pic
TmpName(k) == Str_tmp_pic \o to_string(k)

\* The number of characters the page count takes: len.to_string().len()
LastIndexNumLen(count) == IF count = 0 THEN 1 ELSE Len(to_string(count - 1))
PageNumLen(count) == Len(to_string(count))

\* The final name of the page at 0-based index i of an archive.
TargetName(i, extension, page_num_len) ==
    IF extension.some
    THEN FormatPadded(i + 1, page_num_len) \o <<".">> \o extension.v
    ELSE FormatPadded(i + 1, page_num_len)

\* The name of the image at 0-based index i of a PDF.
PdfImageName(i, page_num_len) ==
    FormatPadded(i + 1, page_num_len) \o <<".","j","p","g">>

\* ----------------------------------------------------------- inputs
\* File names on disk.
N_out == <<"o","u","t">>
N_c_zip == <<"c",".","z","i","p">>
N_c_pdf == <<"c",".","p","d","f">>
InputNames == {
    N_c_zip, N_c_pdf,
    <<"c",".","Z","I","P">>, <<"c",".","c","b","z">>, <<"c",".","C","b","z">>,
    <<"c",".","P","d","f">>,
    <<"c","o","m","i","c",".","t","x","t">>, <<"c",".","T","X","T">>,
    <<"c">>, <<"c",".">>, <<".","z","i","p">>, <<"c",".","z","i","p",".","g","z">>,
    <<"c",".",BadByte>>,
    <<".",".","z","i","p">>, <<".",".","t","x","t">> }

\* Entries of an archive: the sanitized path and whether it is a directory.
File(path) == [path |-> path, is_dir |-> FALSE]
Dir(path) == [path |-> path, is_dir |-> TRUE]
E_a == File(<< <<"a",".","p","n","g">> >>)
E_b == File(<< <<"b",".","p","n","g">> >>)
E_c10 == File(<< <<"c","1","0",".","p","n","g">> >>)
E_c2 == File(<< <<"c","2",".","p","n","g">> >>)
E_c02 == File(<< <<"c","0","2",".","p","n","g">> >>)
E_txt == File(<< <<"x",".","t","x","t">> >>)
E_web == File(<< <<"s">>, <<"1",".","w","e","b","p">> >>)
E_dir == Dir(<< <<"s">> >>)
E_noext == File(<< <<"n">> >>)
E_upper == File(<< <<"B",".","P","N","G">> >>)
E_badext == File(<< <<"q",".",BadByte>> >>)
E_badnested == File(<< <<"s">>, <<"q",".",BadByte>> >>)
E_page(n) == File(<< <<"p">> \o to_string(n) \o <<".","p","n","g">> >>)

EntryPool == {E_c10, E_c2, E_c02, E_txt, E_dir}
SeqsUpTo(S, n) == UNION {[1..k -> S] : k \in 0..n}

\* p<n>.png, ..., p1.png: a numbered archive stored in descending order.
Numbered(n) == [k \in 1..n |-> E_page(n + 1 - k)]

\* Every archive of up to MaxEntries entries of the pool.
FreeArchives == SeqsUpTo(EntryPool, MaxEntries)

\* The numbered archives and some archives of other names.
ListedArchives ==
    {Numbered(n) : n \in 0..MaxNumbered}
    \cup { <<E_b, E_a, E_c10, E_c2>>,
           <<E_txt, E_a, E_b>>,
           <<E_noext, E_upper, E_dir, E_a>>,
           <<E_web, E_c2, E_txt, E_dir>>,
           <<E_a, E_badext>>,
           <<E_a, E_badnested>> }

\* Pages of a PDF: whether the page and its resources resolve, and the
\* XObjects of its resource dictionary in iteration order.  An XObject is a
\* JPEG image ("jpeg"), an image in another encoding ("raw"), not an image
\* ("form") or a reference that does not resolve ("dangling").
Page(xs) == [state |-> "ok", xobjects |-> xs]
P_bad == [state |-> "bad_page", xobjects |-> <<>>]
P_badres == [state |-> "bad_resources", xobjects |-> <<>>]
PagePool == { P_bad, P_badres, Page(<<>>), Page(<<"jpeg">>),
              Page(<<"jpeg", "form", "dangling", "jpeg">>),
              Page(<<"jpeg", "raw">>),
              Page(<<"jpeg", "jpeg", "jpeg", "jpeg">>) }
Documents == SeqsUpTo(PagePool, MaxPdfPages)

Zip(entries) == [kind |-> "zip", entries |-> entries, pages |-> <<>>]
Pdf(ps) == [kind |-> "pdf", entries |-> <<>>, pages |-> ps]
Garbage == [kind |-> "garbage", entries |-> <<>>, pages |-> <<>>]

\* A file that was in the output directory before the call.
OldContent == [src |-> <<0, 0>>, complete |-> TRUE]
NoFiles == [n \in {} |-> OldContent]
OldFiles == [n \in { <<"1",".","p","n","g">>, TmpName(0), <<"1",".","j","p","g">> }
                |-> OldContent]

\* The directory tree: the nodes that exist, each a "file" or a "dir".
Nodes(in, inKind, out, outKind) ==
    [p \in {q \in {in} : inKind # "missing"}
           \cup {q \in {out} : outKind # "missing" /\ out # in}
        |-> IF p = in THEN inKind ELSE outKind]

Config(in, out, create, images, extended, simple, skip) ==
    [input |-> in, output |-> out, create_output_dir |-> create,
     extract_images_only |-> images, accept_extended_image_formats |-> extended,
     simple_sorting |-> simple, skip_bad_pdf_pages |-> skip]

\* A call of decode: its configuration, the directory tree, the files of the
\* output directory and what the input file holds.
Scenario(d, n, f, c) == [dec |-> d, nodes |-> n, files |-> f, container |-> c]

OutPath(d) == IF d.output.some THEN d.output.v ELSE WithoutExtension(d.input)

\* Every input name, kind of input, output option and kind of output path,
\* over a small archive, a small document and a file that is neither.  The
\* parent directory always exists.
DispatchScenarios ==
    { Scenario(Config(in, out, create, FALSE, FALSE, FALSE, FALSE),
               Nodes(in, inKind, IF out.some THEN out.v ELSE WithoutExtension(in),
                     IF ~out.some /\ WithoutExtension(in) = DotDot THEN "dir" ELSE outKind),
               NoFiles, c) :
        in \in InputNames, inKind \in {"missing", "file", "dir"},
        out \in {None, Some(N_out)}, outKind \in {"missing", "file", "dir"},
        create \in BOOLEAN,
        c \in {Zip(<<E_a>>), Pdf(<<Page(<<"jpeg">>)>>), Garbage} }

\* Every archive under every filter and ordering policy; the listed ones
\* also into an output directory that holds files already.
ArchiveScenarios ==
    { Scenario(Config(N_c_zip, Some(N_out), FALSE, images, extended, simple, FALSE),
               Nodes(N_c_zip, "file", N_out, "dir"), NoFiles, Zip(a)) :
        a \in FreeArchives, images \in BOOLEAN, extended \in BOOLEAN,
        simple \in BOOLEAN }
    \cup
    { Scenario(Config(N_c_zip, Some(N_out), FALSE, images, extended, simple, FALSE),
               Nodes(N_c_zip, "file", N_out, "dir"), f, Zip(a)) :
        a \in ListedArchives, images \in BOOLEAN, extended \in BOOLEAN,
        simple \in BOOLEAN, f \in {NoFiles, OldFiles} }

\* Every document with and without skip_bad_pdf_pages.
PdfScenarios ==
    { Scenario(Config(N_c_pdf, Some(N_out), FALSE, FALSE, FALSE, FALSE, skip),
               Nodes(N_c_pdf, "file", N_out, "dir"), f, Pdf(d)) :
        d \in Documents, skip \in BOOLEAN, f \in {NoFiles, OldFiles} }

Scenarios == DispatchScenarios \cup ArchiveScenarios \cup PdfScenarios

\* ------------------------------------------------------------ state
VARIABLES
    dec,            \* the Decode configuration
    container,      \* what the input file holds
    nodes,          \* the directory tree
    files,          \* the files of the output directory
    before,         \* nodes and files when the call started
    pc,             \* the position in decode
    output,         \* the output directory
    ext,            \* the input's extension
    i,              \* the index of the loop under way (0-based)
    pages,          \* the staged pages
    images,         \* the images found in the PDF
    page_num_len,   \* the width of the page numbers
    extracted,      \* the paths extracted so far
    result,         \* what decode returns
    warnings,       \* the warnings logged
    ops             \* the file operations done, in order

vars == <<dec, container, nodes, files, before, pc, output, ext, i, pages, images,
          page_num_len, extracted, result, warnings, ops>>

NoResult == [kind |-> "none", err |-> "", arg |-> <<>>, page |-> 0, list |-> <<>>]
Err(name, arg, page) ==
    [kind |-> "err", err |-> name, arg |-> arg, page |-> page, list |-> <<>>]
Ok(list) == [kind |-> "ok", err |-> "", arg |-> <<>>, page |-> 0, list |-> list]
Panic == [kind |-> "panic", err |-> "", arg |-> <<>>, page |-> 0, list |-> <<>>]

Init ==
    \E s \in Scenarios :
        /\ dec = s.dec
        /\ container = s.container
        /\ nodes = s.nodes
        /\ files = s.files
        /\ before = [nodes |-> s.nodes, files |-> s.files]
        /\ pc = "start"
        /\ output = <<>>
        /\ ext = None
        /\ i = 0
        /\ pages = <<>>
        /\ images = <<>>
        /\ page_num_len = 0
        /\ extracted = <<>>
        /\ result = NoResult
        /\ warnings = <<>>
        /\ ops = <<>>

\* `return Err(..)` and the `?` operator: decode ends with the error.
Return(r) ==
    /\ pc' = "done"
    /\ result' = r

\* --------------------------------------------------- file operations
Op(op, from, to) == [op |-> op, from |-> from, to |-> to]

\* File::create then io::copy, or fs::write: the file holds the content,
\* whatever file had the name before.
Put(f, name, content) ==
    [n \in DOMAIN f \cup {name} |-> IF n = name THEN content ELSE f[n]]

\* fs::rename: the file leaves its old name and replaces what had the new one.
RenameDropping(f, from, to) == [n \in DOMAIN f \ {from} |-> f[n]]
Rename(f, from, to) ==
    [n \in (DOMAIN f \ {from}) \cup {to} |-> IF n = to THEN f[from] ELSE f[n]]

\* -------------------------------------------------------- validation
\* Lines 14-25: the input must exist and be a file.
Validate ==
    /\ pc = "start"
    /\ \E cwd_ok \in BOOLEAN :
        IF ~cwd_ok THEN Return(Err("FailedToGetCWD", <<>>, 0))
        ELSE IF dec.input \notin DOMAIN nodes
        THEN Return(Err("InputFileNotFound", <<>>, 0))
        ELSE IF nodes[dec.input] # "file"
        THEN Return(Err("InputFileIsADirectory", <<>>, 0))
        ELSE pc' = "output" /\ result' = result
    /\ UNCHANGED <<dec, container, nodes, files, before, output, ext, i, pages, images,
                   page_num_len, extracted, warnings, ops>>

\* fs::create_dir_all: nothing to do for a directory, fails on a file, and
\* creates a missing directory unless the system refuses.
CreateDirAll(path, io_ok) ==
    IF path \in DOMAIN nodes
    THEN IF nodes[path] = "dir"
         THEN /\ nodes' = nodes
              /\ output' = path
              /\ pc' = "ext"
              /\ result' = result
         ELSE /\ Return(Err("FailedToCreateOutputDirectory", path, 0))
              /\ UNCHANGED <<nodes, output>>
    ELSE IF io_ok
         THEN /\ nodes' = [p \in DOMAIN nodes \cup {path} |->
                              IF p = path THEN "dir" ELSE nodes[p]]
              /\ output' = path
              /\ pc' = "ext"
              /\ result' = result
         ELSE /\ Return(Err("FailedToCreateOutputDirectory", path, 0))
              /\ UNCHANGED <<nodes, output>>

\* Lines 27-49: the output directory, created when asked for or when none
\* is given.
ResolveOutput ==
    /\ pc = "output"
    /\ \E io_ok \in BOOLEAN :
        IF dec.output.some
        THEN IF dec.output.v \notin DOMAIN nodes
             THEN IF dec.create_output_dir
                  THEN CreateDirAll(dec.output.v, io_ok)
                  ELSE /\ Return(Err("OutputDirectoryNotFound", <<>>, 0))
                       /\ UNCHANGED <<nodes, output>>
             ELSE IF nodes[dec.output.v] # "dir"
                  THEN /\ Return(Err("OutputDirectoryIsAFile", <<>>, 0))
                       /\ UNCHANGED <<nodes, output>>
                  ELSE /\ output' = dec.output.v
                       /\ pc' = "ext"
                       /\ UNCHANGED <<nodes, result>>
        ELSE CreateDirAll(WithoutExtension(dec.input), io_ok)
    /\ UNCHANGED <<dec, container, files, before, ext, i, pages, images,
                   page_num_len, extracted, warnings, ops>>

\* Lines 51-60: the input's extension, which must exist and be UTF-8.
GetExtension ==
    /\ pc = "ext"
    /\ LET e == Extension(dec.input)
       IN  IF ~e.some
           THEN Return(Err("UnsupportedFormat", <<>>, 0)) /\ ext' = ext
           ELSE IF ~IsUtf8(e.v)
           THEN /\ Return(Err("InputFileHasInvalidUTF8FileExtension", dec.input, 0))
                /\ ext' = ext
           ELSE /\ ext' = e
                /\ pc' = "dispatch"
                /\ result' = result
    /\ UNCHANGED <<dec, container, nodes, files, before, output, i, pages, images,
                   page_num_len, extracted, warnings, ops>>

\* ---------------------------------------------------------- dispatch
S_zip == <<"z","i","p">>
S_cbz == <<"c","b","z">>
S_pdf == <<"p","d","f">>

\* The arm of `match ext.to_lowercase().as_str()` (lines 66-67, 188, 254).
CaseSensitiveFormat(e) ==
    IF e \in {S_zip, S_cbz} THEN "zip"
    ELSE IF e = S_pdf THEN "pdf"
    ELSE "unsupported"
FormatWithoutDefault(e) ==
    IF to_lowercase(e) = S_pdf THEN "pdf" ELSE "zip"
Format(e) ==
    IF to_lowercase(e) \in {S_zip, S_cbz} THEN "zip"
    ELSE IF to_lowercase(e) = S_pdf THEN "pdf"
    ELSE "unsupported"

\* Lines 62-67, 188, 254-260: one extractor, or UnsupportedFormat with the
\* extension as it was given.
Dispatch ==
    /\ pc = "dispatch"
    /\ IF Format(ext.v) = "zip" THEN pc' = "zip_open" /\ result' = result
       ELSE IF Format(ext.v) = "pdf" THEN pc' = "pdf_open" /\ result' = result
       ELSE Return(Err("UnsupportedFormat", ext.v, 0))
    /\ UNCHANGED <<dec, container, nodes, files, before, output, ext, i, pages, images,
                   page_num_len, extracted, warnings, ops>>

\* ------------------------------------------------- archive extractor
\* Lines 71-87: open the input file and read it as a ZIP archive.
ZipOpen ==
    /\ pc = "zip_open"
    /\ \E open_ok \in BOOLEAN :
        IF ~open_ok
        THEN /\ Return(Err("FailedToOpenZipFile", <<>>, 0))
             /\ UNCHANGED <<i, pages, ops>>
        ELSE IF container.kind # "zip"
        THEN /\ Return(Err("InvalidZipArchive", <<>>, 0))
             /\ ops' = Append(ops, Op("open_zip", dec.input, <<>>))
             /\ UNCHANGED <<i, pages>>
        ELSE /\ pc' = "zip_loop"
             /\ i' = 0
             /\ pages' = <<>>
             /\ ops' = Append(ops, Op("open_zip", dec.input, <<>>))
             /\ result' = result
    /\ UNCHANGED <<dec, container, nodes, files, before, output, ext, images,
                   page_num_len, extracted, warnings>>

\* Lines 95-105: folders are ignored, and with extract_images_only so are
\* the files that have no image extension.
IsPageUnfiltered(entry, d) == ~entry.is_dir
IsPage(entry, d) ==
    /\ ~entry.is_dir
    /\ ~(d.extract_images_only
            /\ ~has_image_ext(entry.path, d.accept_extended_image_formats))

\* Lines 89-142: one turn of the loop over the entries of the archive.
ZipEntry ==
    /\ pc = "zip_loop"
    /\ i < Len(container.entries)
    /\ \E read_ok \in BOOLEAN, create_ok \in BOOLEAN, copy_ok \in BOOLEAN :
        LET file == container.entries[i + 1]
            e == PathExtension(file.path)
            outpath == TmpName(Len(pages))
            bytes(done) == [src |-> <<i + 1, 0>>, complete |-> done]
        IN  IF ~read_ok
            THEN /\ Return(Err("ZipError", <<>>, 0))
                 /\ UNCHANGED <<i, pages, files, ops>>
            ELSE IF ~IsPage(file, dec)
            THEN /\ i' = i + 1
                 /\ UNCHANGED <<pc, result, pages, files, ops>>
            ELSE IF e.some /\ ~IsUtf8(e.v)
            THEN /\ Return(Err("ZipFileHasInvalidUTF8FileExtension",
                               PathString(file.path), 0))
                 /\ UNCHANGED <<i, pages, files, ops>>
            ELSE IF ~create_ok
            THEN /\ Return(Err("FailedToCreateOutputFile", outpath, 0))
                 /\ UNCHANGED <<i, pages, files, ops>>
            ELSE IF ~copy_ok
            THEN /\ Return(Err("FailedToExtractZipFile", outpath, 0))
                 /\ files' = Put(files, outpath, bytes(FALSE))
                 /\ ops' = Append(ops, Op("create", <<>>, outpath))
                 /\ UNCHANGED <<i, pages>>
            ELSE /\ files' = Put(files, outpath, bytes(TRUE))
                 /\ ops' = Append(ops, Op("create", <<>>, outpath))
                 /\ pages' = Append(pages, [path_in_zip |-> file.path,
                                            extracted_path |-> outpath,
                                            extension |-> e])
                 /\ i' = i + 1
                 /\ UNCHANGED <<pc, result>>
    /\ UNCHANGED <<dec, container, nodes, before, output, ext, images,
                   page_num_len, extracted, warnings>>

\* Lines 144-159: after the last entry, sort the pages and compute the
\* width of the page numbers.
ZipSort ==
    /\ pc = "zip_loop"
    /\ i = Len(container.entries)
    /\ pages' = SortPages(dec.simple_sorting, pages)
    /\ page_num_len' = PageNumLen(Len(pages))
    /\ extracted' = <<>>
    /\ i' = 0
    /\ pc' = "zip_rename"
    /\ UNCHANGED <<dec, container, nodes, files, before, output, ext, images,
                   result, warnings, ops>>

\* Line 182: the path pushed to the list that is returned.
TemporaryPath(page, target) == page.extracted_path
ExtractedPath(page, target) == target

\* Lines 161-183: one turn of the loop that renames the pages.
ZipRename ==
    /\ pc = "zip_rename"
    /\ i < Len(pages)
    /\ \E io_ok \in BOOLEAN :
        LET page == pages[i + 1]
            target == TargetName(i, page.extension, page_num_len)
        IN  IF io_ok /\ page.extracted_path \in DOMAIN files
            THEN /\ files' = Rename(files, page.extracted_path, target)
                 /\ ops' = Append(ops, Op("rename", page.extracted_path, target))
                 /\ extracted' = Append(extracted, ExtractedPath(page, target))
                 /\ i' = i + 1
                 /\ UNCHANGED <<pc, result>>
            ELSE /\ Return(Err("FailedToRenameTemporaryFile", target, 0))
                 /\ UNCHANGED <<files, ops, extracted, i>>
    /\ UNCHANGED <<dec, container, nodes, before, output, ext, pages, images,
                   page_num_len, warnings>>

\* Lines 185, 263-273: every page is renamed; the paths are returned.
ZipDone ==
    /\ pc = "zip_rename"
    /\ i = Len(pages)
    /\ Return(Ok(extracted))
    /\ UNCHANGED <<dec, container, nodes, files, before, output, ext, i, pages, images,
                   page_num_len, extracted, warnings, ops>>

\* ------------------------------------------------ document extractor
\* Lines 192-196: open the input file as a PDF.
PdfOpen ==
    /\ pc = "pdf_open"
    /\ \E open_ok \in BOOLEAN :
        IF open_ok /\ container.kind = "pdf"
        THEN /\ pc' = "pdf_pages"
             /\ images' = <<>>
             /\ i' = 0
             /\ ops' = Append(ops, Op("open_pdf", dec.input, <<>>))
             /\ result' = result
        ELSE /\ Return(Err("FailedToOpenPdfFile", <<>>, 0))
             /\ UNCHANGED <<images, i, ops>>
    /\ UNCHANGED <<dec, container, nodes, files, before, output, ext, pages,
                   page_num_len, extracted, warnings>>

\* Lines 212-218: the XObjects of a page that resolve and are images, in
\* the order of the resource dictionary.
RECURSIVE CollectImages(_, _, _, _)
CollectImages(page_no, xobjects, k, keep) ==
    IF k > Len(xobjects) THEN <<>>
    ELSE (IF xobjects[k] \in keep
          THEN <<[page |-> page_no, res |-> k, kind |-> xobjects[k]]>>
          ELSE <<>>)
         \o CollectImages(page_no, xobjects, k + 1, keep)
PageImages(page_no, xobjects) ==
    CollectImages(page_no, xobjects, 1, {"jpeg", "raw"})

\* Lines 203, 209: whether a page that fails is skipped with a warning.
NeverSkips(d) == FALSE
SkipsBadPages(d) == d.skip_bad_pdf_pages

\* Lines 199-222: one turn of the loop over the pages of the document.
PdfPage ==
    /\ pc = "pdf_pages"
    /\ i < Len(container.pages)
    /\ LET page == container.pages[i + 1]
           failure == IF page.state = "bad_page" THEN "FailedToGetPdfPage"
                      ELSE "FailedToGetPdfPageResources"
       IN  IF page.state # "ok"
           THEN IF SkipsBadPages(dec)
                THEN /\ warnings' = Append(warnings, [err |-> failure, page |-> i + 1])
                     /\ i' = i + 1
                     /\ UNCHANGED <<pc, result, images>>
                ELSE /\ Return(Err(failure, <<>>, i + 1))
                     /\ UNCHANGED <<warnings, i, images>>
           ELSE /\ images' = images \o PageImages(i + 1, page.xobjects)
                /\ i' = i + 1
                /\ UNCHANGED <<pc, result, warnings>>
    /\ UNCHANGED <<dec, container, nodes, files, before, output, ext, pages,
                   page_num_len, extracted, ops>>

\* Lines 224-227: after the last page, the width of the page numbers.
PdfCount ==
    /\ pc = "pdf_pages"
    /\ i = Len(container.pages)
    /\ page_num_len' = PageNumLen(Len(images))
    /\ extracted' = <<>>
    /\ i' = 0
    /\ pc' = "pdf_write"
    /\ UNCHANGED <<dec, container, nodes, files, before, output, ext, pages, images,
                   result, warnings, ops>>

\* Lines 230-249: one turn of the loop that writes the images.  as_jpeg()
\* is None for an image that is not a JPEG, and unwrap() then panics.
PdfWrite ==
    /\ pc = "pdf_write"
    /\ i < Len(images)
    /\ \E io \in {"ok", "failed", "failed_midway"} :
        LET image == images[i + 1]
            outpath == PdfImageName(i, page_num_len)
            bytes(done) == [src |-> <<image.page, image.res>>, complete |-> done]
        IN  IF image.kind \notin {"jpeg", "raw"}
            THEN /\ i' = i + 1
                 /\ UNCHANGED <<pc, result, files, ops, extracted>>
            ELSE IF image.kind # "jpeg"
            THEN /\ Return(Panic)
                 /\ UNCHANGED <<files, ops, extracted, i>>
            ELSE IF io = "ok"
            THEN /\ files' = Put(files, outpath, bytes(TRUE))
                 /\ ops' = Append(ops, Op("write", <<>>, outpath))
                 /\ extracted' = Append(extracted, outpath)
                 /\ i' = i + 1
                 /\ UNCHANGED <<pc, result>>
            ELSE IF io = "failed"
            THEN /\ Return(Err("FailedToExtractPdfImage", outpath, i + 1))
                 /\ UNCHANGED <<files, ops, extracted, i>>
            ELSE /\ Return(Err("FailedToExtractPdfImage", outpath, i + 1))
                 /\ files' = Put(files, outpath, bytes(FALSE))
                 /\ ops' = Append(ops, Op("write", <<>>, outpath))
                 /\ UNCHANGED <<extracted, i>>
    /\ UNCHANGED <<dec, container, nodes, before, output, ext, pages, images,
                   page_num_len, warnings>>

\* Lines 251, 263-273: every image is written; the paths are returned.
PdfDone ==
    /\ pc = "pdf_write"
    /\ i = Len(images)
    /\ Return(Ok(extracted))
    /\ UNCHANGED <<dec, container, nodes, files, before, output, ext, i, pages, images,
                   page_num_len, extracted, warnings, ops>>

\* ----------------------------------------------------- specification
Next ==
    \/ Validate
    \/ ResolveOutput
    \/ GetExtension
    \/ Dispatch
    \/ ZipOpen
    \/ ZipEntry
    \/ ZipSort
    \/ ZipRename
    \/ ZipDone
    \/ PdfOpen
    \/ PdfPage
    \/ PdfCount
    \/ PdfWrite
    \/ PdfDone

Spec == Init /\ [][Next]_vars

\* ----------------------------------------------------------- claims
\* Vocabulary of the claims, stated apart from the operators of the model.
Started(op) == \E m \in 1..Len(ops) : ops[m].op = op
OpsOf(kinds) == {m \in 1..Len(ops) : ops[m].op \in kinds}
Succeeded == pc = "done" /\ result.kind = "ok"

RECURSIVE Pow10(_)
Pow10(d) == IF d = 0 THEN 1 ELSE 10 * Pow10(d - 1)
\* The number of base-10 digits of n.
DecimalDigits(n) == CHOOSE d \in 1..6 : (d = 1 \/ n >= Pow10(d - 1)) /\ n < Pow10(d)

\* A final name is a number followed by the rest of the name.
NumericPart(name) == SubSeq(name, 1, DigitRun(name))
AfterNumber(name) == SubSeq(name, DigitRun(name) + 1, Len(name))

\* The entries of the archive that are to be extracted: the files, and with
\* extract_images_only those of them the image predicate accepts.
Qualifying ==
    {k \in 1..Len(container.entries) :
        /\ ~container.entries[k].is_dir
        /\ dec.extract_images_only =>
              has_image_ext(container.entries[k].path, dec.accept_extended_image_formats)}

\* The ordering policy on container paths.
PolicyCmp(a, b) == IF dec.simple_sorting THEN PathCmp(a, b) ELSE natural_paths_cmp(a, b)

\* The entry whose bytes the file of this name holds.
EntryOf(name) == files[name].src[1]

Name_1_png == <<"1",".","p","n","g">>
Name_2_png == <<"2",".","p","n","g">>
Name_3_png == <<"3",".","p","n","g">>
Name_4_png == <<"4",".","p","n","g">>

\* C1: a successful archive extraction of N qualifying entries returns N
\* paths; the k-th is zero-pad(k, digits of N) plus "." and the extension
\* (nothing for an entry without extension) of the k-th qualifying entry in
\* the order of the ordering policy on the container paths, entries that
\* compare equal staying in container order; the file of that name holds
\* that entry's bytes; and each staged page was renamed exactly once.
C1_ArchiveResultIsOrderedAndNumbered ==
    (Succeeded /\ Started("open_zip")) =>
        LET es == container.entries
            n == Cardinality(Qualifying)
            list == result.list
        IN  /\ Len(list) = n
            /\ \A k \in 1..Len(list) :
                /\ list[k] \in DOMAIN files
                /\ files[list[k]].complete
                /\ EntryOf(list[k]) \in Qualifying
                /\ Len(NumericPart(list[k])) = DecimalDigits(n)
                /\ NumVal(NumericPart(list[k])) = k
                /\ LET e == PathExtension(es[EntryOf(list[k])].path)
                   IN  AfterNumber(list[k]) = IF e.some THEN <<".">> \o e.v ELSE <<>>
            /\ \A k \in 1..Len(list), l \in 1..Len(list) :
                k < l =>
                    LET c == PolicyCmp(es[EntryOf(list[k])].path, es[EntryOf(list[l])].path)
                    IN  c < 0 \/ (c = 0 /\ EntryOf(list[k]) < EntryOf(list[l]))
            /\ \A k \in 1..Len(pages) :
                Cardinality({m \in OpsOf({"rename"}) :
                                ops[m].from = pages[k].extracted_path}) = 1
            /\ Cardinality(OpsOf({"rename"})) = n

\* b.png, a.png, c10.png, c2.png in natural mode came out as a.png, b.png,
\* c2.png, c10.png under the names 1.png to 4.png.
C1_Witness ==
    /\ Succeeded
    /\ container.entries = <<E_b, E_a, E_c10, E_c2>>
    /\ ~dec.simple_sorting
    /\ result.list = <<Name_1_png, Name_2_png, Name_3_png, Name_4_png>>
    /\ <<EntryOf(Name_1_png), EntryOf(Name_2_png), EntryOf(Name_3_png),
         EntryOf(Name_4_png)>> = <<2, 1, 4, 3>>

\* The number of pages of the extraction under way.
PageCount == IF Started("open_zip") THEN Len(pages) ELSE Len(images)

\* C2: in both extractors, for N pages the numeric part of every final name
\* has exactly len(str(N)) digits (1 for 9, 2 for 10, 3 for 100), the page
\* at 0-based index i gets number i+1, and a successful call numbers its
\* pages 1..N without gap or repeat.
C2_NamesAreZeroPadded ==
    /\ PageNumLen(9) = 1 /\ PageNumLen(10) = 2 /\ PageNumLen(100) = 3
    /\ pc \in {"zip_rename", "pdf_write", "done"} =>
        /\ \A k \in 1..Len(extracted) :
            /\ Len(NumericPart(extracted[k])) = DecimalDigits(PageCount)
            /\ NumVal(NumericPart(extracted[k])) = k
        /\ Succeeded =>
            /\ result.list = extracted
            /\ Len(extracted) = PageCount

\* An archive of ten pages came out as 01.png to 10.png.
C2_Witness ==
    /\ Succeeded
    /\ Started("open_zip")
    /\ Len(result.list) = 10
    /\ result.list[1] = <<"0","1",".","p","n","g">>
    /\ result.list[10] = <<"1","0",".","p","n","g">>

\* The errors that the extraction of one entry raises once it is read.
ExtractionErrors ==
    {"ZipFileHasInvalidUTF8FileExtension", "FailedToCreateOutputFile",
     "FailedToExtractZipFile"}

\* C3: in archive extraction a directory is always skipped and, with
\* extract_images_only, so is every file the image predicate rejects: the
\* pages staged are the qualifying entries met so far, a file is created
\* for qualifying entries only, an entry that does not qualify raises no
\* extraction error, and a successful call returns as many files as there
\* are qualifying entries (every file when extract_images_only is false).
C3_OnlyQualifyingEntriesAreExtracted ==
    Started("open_zip") /\ container.kind = "zip" =>
        /\ pc = "zip_loop" =>
              Len(pages) = Cardinality({k \in Qualifying : k <= i})
        /\ \A n \in DOMAIN files : EntryOf(n) # 0 => EntryOf(n) \in Qualifying
        /\ Cardinality(OpsOf({"create"})) <= Cardinality(Qualifying)
        /\ (pc = "done" /\ result.err \in ExtractionErrors) => (i + 1) \in Qualifying
        /\ Succeeded =>
            /\ Len(result.list) = Cardinality(Qualifying)
            /\ {EntryOf(result.list[k]) : k \in 1..Len(result.list)} = Qualifying
            /\ ~dec.extract_images_only =>
                  Qualifying = {k \in 1..Len(container.entries) :
                                    ~container.entries[k].is_dir}

\* One .txt and two .png entries with extract_images_only gave two files.
C3_Witness ==
    /\ Succeeded
    /\ container.entries = <<E_txt, E_a, E_b>>
    /\ dec.extract_images_only
    /\ Len(result.list) = 2
    /\ Cardinality(OpsOf({"create"})) = 2

\* The call got past the validation of the input and output paths.
Validated == output # <<>>

\* The extension of the input, compared without case.
InputExt == Extension(dec.input)
ExtIs(names) == InputExt.some /\ IsUtf8(InputExt.v) /\ to_lowercase(InputExt.v) \in names
ExtUnsupported ==
    InputExt.some /\ IsUtf8(InputExt.v)
        /\ to_lowercase(InputExt.v) \notin {S_zip, S_cbz, S_pdf}

ArchiveErrors ==
    {"FailedToOpenZipFile", "InvalidZipArchive", "ZipError", "FailedToRenameTemporaryFile"}
        \cup ExtractionErrors
DocumentErrors ==
    {"FailedToOpenPdfFile", "FailedToGetPdfPage", "FailedToGetPdfPageResources",
     "FailedToExtractPdfImage"}

\* C4: once the paths are validated the extension alone, compared without
\* case, selects the outcome: zip or cbz runs the archive extractor and
\* never the document extractor, pdf the document extractor and never the
\* archive extractor, any other extension fails with UnsupportedFormat
\* carrying the extension as given, no extension fails with
\* UnsupportedFormat carrying the empty string, and an extension that is
\* not UTF-8 fails with the invalid-encoding error; in the last three cases
\* no extractor runs.
C4_ExtensionSelectsTheExtractor ==
    /\ pc \in {"zip_open", "zip_loop", "zip_rename"} => ExtIs({S_zip, S_cbz})
    /\ pc \in {"pdf_open", "pdf_pages", "pdf_write"} => ExtIs({S_pdf})
    /\ Started("open_zip") => ExtIs({S_zip, S_cbz})
    /\ Started("open_pdf") => ExtIs({S_pdf})
    /\ (pc = "done" /\ Validated) =>
        IF ~InputExt.some
        THEN result = Err("UnsupportedFormat", <<>>, 0) /\ ops = <<>>
        ELSE IF ~IsUtf8(InputExt.v)
        THEN /\ result = Err("InputFileHasInvalidUTF8FileExtension", dec.input, 0)
             /\ ops = <<>>
        ELSE IF ExtIs({S_zip, S_cbz})
        THEN result.kind = "ok" \/ result.err \in ArchiveErrors
        ELSE IF ExtIs({S_pdf})
        THEN result.kind \in {"ok", "panic"} \/ result.err \in DocumentErrors
        ELSE result = Err("UnsupportedFormat", InputExt.v, 0) /\ ops = <<>>

\* c.ZIP was extracted as an archive.
C4_Witness ==
    /\ Succeeded
    /\ dec.input = <<"c",".","Z","I","P">>
    /\ Started("open_zip")
    /\ Len(result.list) = 1

\* The directory tree with the output directory in place.
WithOutputDir(tree) ==
    [p \in DOMAIN tree \cup {OutPath(dec)} |->
        IF p = OutPath(dec) THEN "dir" ELSE tree[p]]

\* C5 as stated: a call on an input of unsupported extension returns
\* UnsupportedFormat with the extension and leaves the file system as it
\* was, also when no output directory is given or when it is missing and
\* create_output_dir is set.
C5_AsStated ==
    (pc = "done" /\ Validated /\ ExtUnsupported) =>
        /\ result = Err("UnsupportedFormat", InputExt.v, 0)
        /\ nodes = before.nodes
        /\ files = before.files

\* C5 as amended: such a call, once its paths are validated, returns
\* UnsupportedFormat with the extension and creates no file; the one change
\* it can make is the output directory, which it creates before it looks at
\* the extension, when none is given or when it is missing and
\* create_output_dir is set.
C5_UnsupportedCreatesNoFile ==
    (pc = "done" /\ Validated /\ ExtUnsupported) =>
        /\ result = Err("UnsupportedFormat", InputExt.v, 0)
        /\ files = before.files
        /\ ops = <<>>
        /\ nodes = WithOutputDir(before.nodes)
        /\ nodes # before.nodes => (~dec.output.some \/ dec.create_output_dir)

\* comic.txt without an output directory: UnsupportedFormat("txt"), and the
\* directory comic now exists.
C5_Witness ==
    /\ pc = "done"
    /\ dec.input = <<"c","o","m","i","c",".","t","x","t">>
    /\ ~dec.output.some
    /\ result = Err("UnsupportedFormat", <<"t","x","t">>, 0)
    /\ <<"c","o","m","i","c">> \notin DOMAIN before.nodes
    /\ nodes[<<"c","o","m","i","c">>] = "dir"
    /\ files = before.files

\* The pages of the document that fail to resolve, and the images of the
\* pages that resolve, as (page, resource) pairs.
BadPages == {p \in 1..Len(container.pages) : container.pages[p].state # "ok"}
PageError(p) ==
    IF container.pages[p].state = "bad_page" THEN "FailedToGetPdfPage"
    ELSE "FailedToGetPdfPageResources"
DocumentImages ==
    UNION { { <<p, r>> : r \in {q \in 1..Len(container.pages[p].xobjects) :
                                   container.pages[p].xobjects[q] \in {"jpeg", "raw"}} } :
            p \in (1..Len(container.pages)) \ BadPages }
DocOrder(a, b) == a[1] < b[1] \/ (a[1] = b[1] /\ a[2] < b[2])
ImageId(k) == <<images[k].page, images[k].res>>

\* C6: in document extraction with skip_bad_pdf_pages a page that fails
\* contributes no image and one warning, and the images of all other pages
\* are collected, and on success written, in document order; without it the
\* call fails at the first such page with that page's error, before any
\* image is written.
C6_BadPagesAreSkippedOrAbort ==
    (Started("open_pdf") /\ container.kind = "pdf") =>
        /\ dec.skip_bad_pdf_pages =>
            /\ result.err \notin {"FailedToGetPdfPage", "FailedToGetPdfPageResources"}
            /\ pc \in {"pdf_write", "done"} =>
                /\ {ImageId(k) : k \in 1..Len(images)} = DocumentImages
                /\ \A k \in 1..Len(images), l \in 1..Len(images) :
                      k < l => DocOrder(ImageId(k), ImageId(l))
                /\ Len(warnings) = Cardinality(BadPages)
                /\ \A k \in 1..Len(warnings) :
                      /\ warnings[k].page \in BadPages
                      /\ warnings[k].err = PageError(warnings[k].page)
                      /\ \A l \in 1..Len(warnings) :
                            k < l => warnings[k].page < warnings[l].page
            /\ Succeeded =>
                /\ Len(result.list) = Cardinality(DocumentImages)
                /\ \A k \in 1..Len(result.list) :
                      files[result.list[k]].src = ImageId(k)
        /\ (~dec.skip_bad_pdf_pages /\ BadPages # {} /\ pc = "done") =>
            LET first == CHOOSE p \in BadPages : \A q \in BadPages : p <= q
            IN  /\ result = Err(PageError(first), <<>>, first)
                /\ files = before.files
                /\ OpsOf({"write"}) = {}
                /\ warnings = <<>>

\* Page 2 of three failed and was skipped; the images of pages 1 and 3 were
\* written in that order.
C6_Witness ==
    /\ Succeeded
    /\ dec.skip_bad_pdf_pages
    /\ Len(container.pages) = 3
    /\ BadPages = {2}
    /\ Len(warnings) = 1 /\ warnings[1].page = 2
    /\ Len(result.list) = 5
    /\ files[result.list[1]].src = <<1, 1>>
    /\ files[result.list[5]].src = <<3, 4>>

\* The names the staging gives: ___tmp_pic_ and a number.
IsTmpName(name) ==
    /\ Len(name) > Len(Str_tmp_pic)
    /\ SubSeq(name, 1, Len(Str_tmp_pic)) = Str_tmp_pic
    /\ \A k \in (Len(Str_tmp_pic) + 1)..Len(name) : IsDigit(name[k])
TmpNumber(name) == NumVal(SubSeq(name, Len(Str_tmp_pic) + 1, Len(name)))

\* C7: no partial success is reported: nothing is returned before the call
\* ends, a call that does not succeed returns no list, and a successful one
\* returns the full list, every path of which is a completed file on disk
\* under its final name, the result of a write or rename that succeeded,
\* never a ___tmp_pic_ name.
C7_NoPartialSuccess ==
    /\ pc # "done" => result = NoResult
    /\ pc = "done" => result.kind \in {"ok", "err", "panic"}
    /\ result.kind # "ok" => result.list = <<>>
    /\ Succeeded =>
        /\ Len(result.list) = PageCount
        /\ \A k \in 1..Len(result.list) :
            /\ result.list[k] \in DOMAIN files
            /\ files[result.list[k]].complete
            /\ files[result.list[k]].src # OldContent.src
            /\ ~IsTmpName(result.list[k])
            /\ \E m \in OpsOf({"rename", "write"}) : ops[m].to = result.list[k]
            /\ \A l \in 1..Len(result.list) : k # l => result.list[k] # result.list[l]

\* A successful archive extraction returned three completed files into a
\* directory that held files before.
C7_Witness ==
    /\ Succeeded
    /\ Started("open_zip")
    /\ before.files = OldFiles
    /\ Len(result.list) = 3
    /\ \A k \in 1..3 : files[result.list[k]].complete

\* C8 as stated: an image of the document whose JPEG form cannot be produced
\* is skipped without error: unless a write fails, the call succeeds and
\* returns the other images in document order.
C8_AsStated ==
    (pc = "done" /\ Started("open_pdf") /\ container.kind = "pdf"
        /\ result.err \notin DocumentErrors) =>
        /\ result.kind = "ok"
        /\ LET jpegs == {k \in 1..Len(images) : images[k].kind = "jpeg"}
           IN  /\ Len(result.list) = Cardinality(jpegs)
               /\ \A k \in 1..Len(result.list) :
                    \E j \in jpegs :
                        /\ files[result.list[k]].src = ImageId(j)
                        /\ Cardinality({m \in jpegs : m <= j}) = k

\* The names that were created, written or renamed to, and are not renamed
\* away since.
Renamed(name, since) ==
    \E m \in OpsOf({"rename"}) : m > since /\ ops[m].from = name

\* C9: during archive extraction the temporary file of every staged page is
\* on disk, complete, until it is renamed, and no step deletes a file: a
\* file that was there before the call, or that the call created or renamed
\* to, is still there unless it was renamed since, also after the call
\* failed.
C9_NothingIsDeleted ==
    Started("open_zip") =>
        /\ \A k \in 1..Len(pages) :
            \/ Renamed(pages[k].extracted_path, 0)
            \/ /\ pages[k].extracted_path \in DOMAIN files
               /\ files[pages[k].extracted_path].complete
               /\ files[pages[k].extracted_path].src # OldContent.src
        /\ \A n \in DOMAIN before.files : n \in DOMAIN files \/ Renamed(n, 0)
        /\ \A m \in OpsOf({"create", "rename"}) :
            ops[m].to \in DOMAIN files \/ Renamed(ops[m].to, m)
        /\ \A k \in 1..Len(extracted) :
            extracted[k] \in DOMAIN files /\ files[extracted[k]].complete

\* The rename of the third of four pages failed: two final files and two
\* temporary files are on disk.
C9_Witness ==
    /\ pc = "done"
    /\ result.err = "FailedToRenameTemporaryFile"
    /\ Len(pages) = 4 /\ i = 2
    /\ extracted[1] \in DOMAIN files /\ extracted[2] \in DOMAIN files
    /\ pages[3].extracted_path \in DOMAIN files
    /\ pages[4].extracted_path \in DOMAIN files

\* C10: archive extraction is two-phase and free of collisions: every file
\* is staged before the first rename, the k-th file staged is ___tmp_pic_
\* followed by k-1, a temporary name is never a final name, and no create or
\* rename goes to a name that an earlier create or rename of the call went
\* to.
C10_TwoPhasesWithoutCollision ==
    Started("open_zip") =>
        /\ \A a \in OpsOf({"rename"}), b \in OpsOf({"create"}) : b < a
        /\ OpsOf({"rename"}) # {} =>
              Cardinality(OpsOf({"create"})) = Cardinality(Qualifying)
        /\ \A m \in OpsOf({"create"}) :
            /\ IsTmpName(ops[m].to)
            /\ TmpNumber(ops[m].to) = Cardinality({b \in OpsOf({"create"}) : b < m})
        /\ \A m \in OpsOf({"rename"}) :
            /\ ~IsTmpName(ops[m].to)
            /\ IsTmpName(ops[m].from)
        /\ \A a \in OpsOf({"create", "rename"}), b \in OpsOf({"create", "rename"}) :
            a # b => ops[a].to # ops[b].to

\* Three pages were staged as ___tmp_pic_0 to ___tmp_pic_2 and renamed, one
\* of them over a file that was in the directory before.
C10_Witness ==
    /\ Succeeded
    /\ before.files = OldFiles
    /\ Cardinality(OpsOf({"create"})) = 3
    /\ Cardinality(OpsOf({"rename"})) = 3
    /\ ops[2].to = TmpName(0) /\ ops[4].to = TmpName(2)
    /\ Name_1_png \in {ops[m].to : m \in OpsOf({"rename"})}

====
